---- MODULE Spec2Model ----
(***************************************************************************)
(* Synthetic PA telemetry generators: src/ftc36h_data_gen.py (the          *)
(* multi-trajectory fault-injection generator) and src/data_gen.py (the    *)
(* single-trajectory generator).                                           *)
(*                                                                         *)
(* Numbers.  The scripts compute in floating point; the model computes in  *)
(* fixed point, rounding every product towards minus infinity:             *)
(*   - powers, currents, temperatures, frequency errors, ACLR, EVM, the    *)
(*     fault amplitude multiplier and the degradation-rate multipliers are *)
(*     in thousandths (60 degC is 60000, cap 1.25 is 1250);                *)
(*   - the two degradation accumulators are in millionths;                 *)
(*   - the aging factor is in units of 1e-7, the increment of one step.    *)
(*                                                                         *)
(* Time.  A run of 129600 steps cannot be enumerated, so every duration    *)
(* of the scripts (schedule breakpoints, duty cycle, fault-timer           *)
(* thresholds, step counts), the trajectory quotas and the amplitude       *)
(* ramp's step are bounds of the model: named below with the value the     *)
(* source gives, and chosen so that a short trajectory passes through      *)
(* every phase the long one does (low power, high power with the latch     *)
(* tripping and the amplitude reaching its cap, RF off, reduced power      *)
(* with the timer decaying to zero).                                       *)
(*                                                                         *)
(* Noise.  A Gaussian draw is any real number; each draw is an input       *)
(* taken from a small set of values around zero, large enough to move the  *)
(* temperature across the stress threshold and ACLR across its ceiling     *)
(* within the short trajectory.                                            *)
(*                                                                         *)
(* Specifications.  Spec (temperature draws of 40 degC either way),        *)
(* SpecMetric (hot steps with large ACLR and EVM draws) and SpecHot        *)
(* (temperature draws of 120 degC) take each draw from a noise set and     *)
(* one shuffle outcome; SpecStream takes every draw from a fixed stream by *)
(* position and every rearrangement the shuffle may leave; SpecRun is the  *)
(* fair run of ftc36h, for termination.                                    *)
(***************************************************************************)
EXTENDS Integers, Sequences, FiniteSets, TLC

VARIABLES
  prog,            \* which script runs: "ftc36h" or "data_gen"
  pc,              \* position in the script
  FAILURE_MODES,   \* ftc36h: the trajectory assignment (a sequence of modes)
  start_time,      \* datetime.now() read once before the loop
  traj_id,         \* ftc36h: index of the current trajectory (0-based)
  step,            \* number of steps of the current loop already run
  time_s,
  aging_factor,
  pa_temp,         \* data_gen calls it pa_temperature
  freq_drift,      \* data_gen calls it freq_drift_state
  prev_aclr,
  prev_evm,
  aclr_deg_state,
  evm_deg_state,
  aclr_deg_rate,
  evm_deg_rate,
  ftc_timer,
  ftc_active,
  ftc_amp,
  row,             \* rows[-1], the row appended last
  nrows,           \* len(rows)
  last,            \* locals of the step that ran last (loop-body temporaries)
  stress_run,      \* observer: consecutive stressed steps ending at the last step
  stress_count,    \* observer: stressed steps of the current trajectory so far
  rng_pos,         \* ftc36h: values taken from rng's stream since it was seeded
  normal_run       \* observer: the current trajectory run in normal mode on
                   \* the same draws (its state and the row of its last step)

vars == <<prog, pc, FAILURE_MODES, start_time, traj_id, step, time_s,
          aging_factor, pa_temp, freq_drift, prev_aclr, prev_evm,
          aclr_deg_state, evm_deg_state, aclr_deg_rate, evm_deg_rate,
          ftc_timer, ftc_active, ftc_amp, row, nrows, last, stress_run,
          stress_count, rng_pos, normal_run>>

Max(a, b) == IF a >= b THEN a ELSE b
Min(a, b) == IF a <= b THEN a ELSE b

(***************************************************************************)
(* Bounds: durations and counts of the scripts, scaled to a short run.     *)
(***************************************************************************)
\* ftc36h: NUM_STEPS = int(HOURS * 3600) = 129600 steps per trajectory
NUM_STEPS == 6
\* ftc36h rf_power_schedule: 8 * 3600, the end of the 6 dBm segment
SegLowEnd == 2
\* ftc36h rf_power_schedule: 20 * 3600, the end of the 10 dBm segment
SegHighEnd == 6
\* ftc36h rf_output_state: the 1800 s cycle and its 1500 s on-duration
CyclePeriod == 3
OnDuration == 2
\* FTC_TIMER_THRESHOLD: 1200 steps for terminal, 300 for the other two
ThresholdTerminal == 3
ThresholdIncipient == 2
ThresholdRecovering == 2
\* the per-step ramp and decay of ftc_amp, 0.001 in the source, in thousandths
AmpStep == 700
\* FAILURE_MODES: 40 normal, MIN_INCI = 8, MIN_RECV = 8, MIN_TERM = 12
NumNormal == 1
MIN_INCI == 1
MIN_RECV == 1
MIN_TERM == 1
\* data_gen: num_steps = 3600, the power step at 1800 s, the 1200 s cycle
\* and its 1000 s on-duration
DgNumSteps == 6
DgPowerStep == 3
DgCyclePeriod == 3
DgOnDuration == 2
\* the clock readings datetime.now() may return: 0 .. MaxClock
MaxClock == 1

(***************************************************************************)
(* Program constants (thousandths unless said otherwise).                  *)
(***************************************************************************)
T_REF == 25000
V_SUPPLY == 28
FTC_THERMAL_GAIN == 40
BASE_ACLR_DEG == 250
BASE_EVM_DEG == 150
EVM_SOFT_SCALE == 25000
ACLR_CEILING == 100000
MAX_COMPRESSION == 6000

Modes == {"normal", "incipient", "recovering", "terminal"}

FTC_TIMER_THRESHOLD ==
  [m \in {"terminal", "incipient", "recovering"} |->
     CASE m = "terminal" -> ThresholdTerminal
       [] m = "incipient" -> ThresholdIncipient
       [] m = "recovering" -> ThresholdRecovering]

FTC_AMP_CAP ==
  [m \in Modes |->
     CASE m = "normal" -> 1000
       [] m = "incipient" -> 1250
       [] m = "recovering" -> 1700
       [] m = "terminal" -> 3000]

(***************************************************************************)
(* sin at whole quarter periods, in thousandths: the model's time step is  *)
(* a quarter of the ambient sinusoid's period.                             *)
(***************************************************************************)
SinQuarter(t) ==
  CASE t % 4 = 0 -> 0
    [] t % 4 = 1 -> 1000
    [] t % 4 = 2 -> 0
    [] t % 4 = 3 -> -1000

(***************************************************************************)
(* ftc36h helper functions                                                 *)
(***************************************************************************)
rf_power_schedule(t) ==
  IF t < SegLowEnd THEN 6000
  ELSE IF t < SegHighEnd THEN 10000
  ELSE 8000

rf_output_state(t) == (t % CyclePeriod) < OnDuration

ambient_temperature(t, noise) == 25000 + 3 * SinQuarter(t) + noise

(***************************************************************************)
(* ftc36h: the stages of one step of the simulation loop, in the order of  *)
(* the loop body.                                                          *)
(***************************************************************************)
\* ts = start_time + timedelta(seconds=time_s)
Timestamp(start, t) == start + t

AgingUpdate_Down(aging) == aging - 1

\* STAGE 0: aging_factor += 1e-7
AgingUpdate(aging) == aging + 1

PaCurrent_Ungated(rf_on, rf_power, aging, noise) ==
  500 + (15 * rf_power) \div 100 + (2 * aging) \div 10000 + noise

\* STAGE 1: 0.5 + 0.15 * rf_power + 2.0 * aging_factor + noise, or 0.0
PaCurrent(rf_on, rf_power, aging, noise) ==
  IF rf_on
  THEN 500 + (15 * rf_power) \div 100 + (2 * aging) \div 10000 + noise
  ELSE 0

\* STAGE 2: pa_temp += 0.02 * (V * I - P) - 0.01 * (pa_temp - ambient) + noise
TempUpdate(temp, pa_current, rf_power, ambient, noise) ==
  temp + (2 * (V_SUPPLY * pa_current - rf_power)) \div 100
       - (temp - ambient) \div 100
       + noise

\* FTC thermal runaway (terminal only): pa_temp += FTC_THERMAL_GAIN * ftc_amp
\* the runaway taken in every latched mode
ThermalRunaway_AnyMode(mode, active, amp, temp) ==
  IF active THEN temp + (FTC_THERMAL_GAIN * amp) \div 1000 ELSE temp

ThermalRunaway(mode, active, amp, temp) ==
  IF mode = "terminal" /\ active
  THEN temp + (FTC_THERMAL_GAIN * amp) \div 1000
  ELSE temp

StressCondition(rf_power, temp) == rf_power >= 9500 /\ temp > 60000

\* the decay without its floor
TimerUpdate_Unfloored(timer, stress) ==
  IF stress THEN timer + 1 ELSE timer - 1

TimerUpdate(timer, stress) ==
  IF stress THEN timer + 1 ELSE Max(0, timer - 1)

(***************************************************************************)
(* The latch check, FAILURE_MODE != "normal" and                           *)
(* ftc_timer >= FTC_TIMER_THRESHOLD[FAILURE_MODE]: `and` evaluates its     *)
(* right operand, and so subscripts the dict, only when the left one is    *)
(* true.  looked: the dict was subscripted; key_error: with a key it does  *)
(* not hold (Python raises KeyError); trips: the condition is true.        *)
(***************************************************************************)
LatchCheck_Unguarded(mode, timer) ==
  LET found == mode \in DOMAIN FTC_TIMER_THRESHOLD
  IN [looked |-> TRUE,
      key_error |-> ~found,
      trips |-> found /\ timer >= FTC_TIMER_THRESHOLD[mode]]

LatchCheck_Strict(mode, timer) ==
  LET looked == mode /= "normal"
      found == mode \in DOMAIN FTC_TIMER_THRESHOLD
  IN [looked |-> looked,
      key_error |-> looked /\ ~found,
      trips |-> looked /\ found /\ timer > FTC_TIMER_THRESHOLD[mode]]

\* trips one step short of the threshold
LatchCheck_Early(mode, timer) ==
  LET looked == mode /= "normal"
      found == mode \in DOMAIN FTC_TIMER_THRESHOLD
  IN [looked |-> looked,
      key_error |-> looked /\ ~found,
      trips |-> looked /\ found /\ timer + 1 >= FTC_TIMER_THRESHOLD[mode]]

LatchCheck(mode, timer) ==
  LET looked == mode /= "normal"
      found == mode \in DOMAIN FTC_TIMER_THRESHOLD
  IN [looked |-> looked,
      key_error |-> looked /\ ~found,
      trips |-> looked /\ found /\ timer >= FTC_TIMER_THRESHOLD[mode]]

LatchUpdate_Level(active, trips) == trips

LatchUpdate(active, trips) == IF trips THEN TRUE ELSE active

\* terminal and latched: the accumulators grow by a uniform jitter draw
DegJitter_AnyMode(mode, active, deg, jitter) ==
  IF active THEN deg + jitter ELSE deg

DegJitter(mode, active, deg, jitter) ==
  IF mode = "terminal" /\ active THEN deg + jitter ELSE deg

AmpUpdate_NoCap(mode, active, amp) ==
  IF active THEN amp + AmpStep ELSE Max(1000, amp - AmpStep)

\* the ramp taken whether or not the fault has latched
AmpUpdate_AlwaysRamps(mode, active, amp) ==
  Min(amp + AmpStep, FTC_AMP_CAP[mode])

AmpUpdate(mode, active, amp) ==
  IF active
  THEN Min(amp + AmpStep, FTC_AMP_CAP[mode])
  ELSE Max(1000, amp - AmpStep)

\* terminal and latched: += BASE * ftc_amp * rate (millionths)
DegBase(mode, active, deg, base, amp, rate) ==
  IF mode = "terminal" /\ active
  THEN deg + (base * amp * rate) \div 1000000
  ELSE deg

\* STAGE 3: no upper cap in this generator
Compression(rf_power, temp, aging) ==
  Max(0, (rf_power - 10000)
         + (2 * Max(0, temp - T_REF)) \div 100
         + (15 * aging) \div 100000)

\* STAGE 4: base physical ACLR response
AclrPhysical(prev, rf_power, temp, noise) ==
  prev - (6 * Max(0, rf_power - 5000)) \div 100
       - (4 * Max(0, temp - 40000)) \div 100
       + noise

\* no bias
AclrBias_None(mode, active, physical, deg) == physical

\* terminal degradation bias (the accumulator is in millionths)
AclrBias(mode, active, physical, deg) ==
  IF mode = "terminal" /\ active THEN physical - deg \div 1000 ELSE physical

\* np.clip(aclr, 0, 100)
AclrClip_Floor(aclr) == Max(0, Min(aclr, ACLR_CEILING))

\* soft bounding only: aclr = min(aclr, 100)
AclrClip(aclr) == Min(aclr, ACLR_CEILING)

\* STAGE 5: evm_physical + evm_deg_state
EvmIncrement(aclr, temp, aging, deg) ==
  (12 * Max(0, 45000 - aclr)) \div 100
  + (3 * Max(0, temp - 40000)) \div 100
  + (4 * aging) \div 100000
  + deg \div 1000

\* prev_evm + evm_increment * 1 / (1 + prev_evm / EVM_SOFT_SCALE) + noise
EvmAsymptotic(prev, increment, noise) ==
  prev + (increment * EVM_SOFT_SCALE) \div (EVM_SOFT_SCALE + prev) + noise

\* terminal FTC guarantees directionality: evm = max(evm, prev_evm)
EvmFloor_None(mode, active, evm, prev) == evm

EvmFloor(mode, active, evm, prev) ==
  IF mode = "terminal" /\ active THEN Max(evm, prev) ELSE evm

(***************************************************************************)
(* ftc36h: one step of the loop body on a trajectory state s (a record of  *)
(* the loop-carried variables), for the mode of the trajectory and one     *)
(* value n.<draw> per random draw of the step.  The result holds the new   *)
(* trajectory state (next), the row appended (row), the loop-body locals   *)
(* (last) and whether the latch check raised KeyError (key_error): the     *)
(* statements after the check then do not run.                             *)
(***************************************************************************)
StepResult(s, mode, start, id, n) ==
  LET t == s.time_s + 1
      aging == AgingUpdate(s.aging_factor)
      ambient == ambient_temperature(t, n.amb)
      rf_power == rf_power_schedule(t)
      rf_on == rf_output_state(t)
      pa_current == PaCurrent(rf_on, rf_power, aging, n.cur)
      temp_base == TempUpdate(s.pa_temp, pa_current, rf_power, ambient, n.temp)
      temp == ThermalRunaway(mode, s.ftc_active, s.ftc_amp, temp_base)
      stress == StressCondition(rf_power, temp)
      timer == TimerUpdate(s.ftc_timer, stress)
      check == LatchCheck(mode, timer)
      active == LatchUpdate(s.ftc_active, check.trips)
      aclr_deg1 == DegJitter(mode, active, s.aclr_deg_state, n.ua)
      evm_deg1 == DegJitter(mode, active, s.evm_deg_state, n.ue)
      amp == AmpUpdate(mode, active, s.ftc_amp)
      aclr_deg == DegBase(mode, active, aclr_deg1, BASE_ACLR_DEG, amp,
                          s.aclr_deg_rate)
      evm_deg == DegBase(mode, active, evm_deg1, BASE_EVM_DEG, amp,
                         s.evm_deg_rate)
      compression == Compression(rf_power, temp, aging)
      measured_rf == rf_power - compression + n.rf
      drift == s.freq_drift + n.drift
      freq_error_int == (temp - T_REF) + drift + n.fint
      freq_error_ext == (2 * (temp - T_REF)) \div 10 + n.fext
      aclr_physical == AclrPhysical(s.prev_aclr, rf_power, temp, n.aclr)
      aclr_raw == AclrBias(mode, active, aclr_physical, aclr_deg)
      aclr == AclrClip(aclr_raw)
      evm_raw == EvmAsymptotic(s.prev_evm,
                   EvmIncrement(aclr, temp, aging, evm_deg), n.evm)
      evm == EvmFloor(mode, active, evm_raw, s.prev_evm)
  IN [key_error |-> check.key_error,
      next |-> IF check.key_error
               THEN [s EXCEPT !.time_s = t, !.aging_factor = aging,
                              !.pa_temp = temp, !.ftc_timer = timer]
               ELSE [time_s |-> t, aging_factor |-> aging, pa_temp |-> temp,
                     freq_drift |-> drift, prev_aclr |-> aclr,
                     prev_evm |-> evm, aclr_deg_state |-> aclr_deg,
                     evm_deg_state |-> evm_deg,
                     aclr_deg_rate |-> s.aclr_deg_rate,
                     evm_deg_rate |-> s.evm_deg_rate,
                     ftc_timer |-> timer, ftc_active |-> active,
                     ftc_amp |-> amp],
      row |-> [ts |-> Timestamp(start, t),
               trajectory_id |-> id,
               failure_mode |-> mode,
               rf_power_setpoint_dbm |-> rf_power,
               rf_output_state |-> rf_on,
               pa_supply_current_a |-> pa_current,
               pa_temperature_c |-> temp,
               measured_rf_output_dbm |-> measured_rf,
               freq_error_internal_hz |-> freq_error_int,
               freq_error_external_hz |-> freq_error_ext,
               aclr_db |-> aclr,
               rms_evm_percent |-> evm,
               aging_factor |-> aging,
               ftc_active |-> active],
      last |-> [stress |-> stress, looked |-> check.looked,
                compression |-> compression, aclr_raw |-> aclr_raw,
                evm_raw |-> evm_raw, evm_in |-> s.prev_evm,
                amp_in |-> s.ftc_amp, timer_in |-> s.ftc_timer,
                active_in |-> s.ftc_active, temp_base |-> temp_base,
                aclr_physical |-> aclr_physical]]

(***************************************************************************)
(* data_gen: the helper functions and the stages of its loop body.         *)
(***************************************************************************)
dg_ambient_temperature(t, noise) == 25000 + 2 * SinQuarter(t) + noise

dg_rf_power_schedule(t) == IF t < DgPowerStep THEN 5000 ELSE 10000

dg_rf_output_state(t) == (t % DgCyclePeriod) < DgOnDuration

\* STAGE 0: aging_factor += 1e-7 * dt
DgAgingUpdate(aging) == aging + 1

\* STAGE 1: I_IDLE + K_POWER * rf_power_setpoint + K_AGING * aging + noise
DgSupplyCurrent(rf_on, rf_power, aging, noise) ==
  IF rf_on
  THEN 500 + (15 * rf_power) \div 100 + (2 * aging) \div 10000 + noise
  ELSE 0

\* STAGE 2: ALPHA * power_dissipated - BETA * (pa_temperature - ambient)
DgTempUpdate(temp, pa_current, rf_power, ambient, noise) ==
  temp + (2 * (V_SUPPLY * pa_current - rf_power)) \div 100
       - (temp - ambient) \div 100
       + noise

\* the compression without the min
DgCompression_Uncapped(rf_power, temp, aging) ==
  Max(0, (rf_power - 10000)
         + (2 * Max(0, temp - T_REF)) \div 100
         + (15 * aging) \div 100000)

\* STAGE 3A: compression = min(max(0.0, ...), MAX_COMPRESSION)
DgCompression(rf_power, temp, aging) ==
  Min(Max(0, (rf_power - 10000)
             + (2 * Max(0, temp - T_REF)) \div 100
             + (15 * aging) \div 100000),
      MAX_COMPRESSION)

DgStepResult(s, start, n) ==
  LET t == s.time_s + 1
      aging == DgAgingUpdate(s.aging_factor)
      ambient == dg_ambient_temperature(t, n.amb)
      rf_power == dg_rf_power_schedule(t)
      rf_on == dg_rf_output_state(t)
      pa_current == DgSupplyCurrent(rf_on, rf_power, aging, n.cur)
      temp == DgTempUpdate(s.pa_temp, pa_current, rf_power, ambient, n.temp)
      compression == DgCompression(rf_power, temp, aging)
      measured_rf == rf_power - compression + n.rf
      drift == s.freq_drift + n.drift
      freq_error_int == (temp - T_REF) + drift + n.fint
      freq_error_ext == (2 * (temp - T_REF)) \div 10 + n.fext
  IN [next |-> [time_s |-> t, aging_factor |-> aging, pa_temp |-> temp,
                freq_drift |-> drift],
      row |-> [ts |-> Timestamp(start, t),
               rf_power_setpoint_dbm |-> rf_power,
               rf_output_state |-> rf_on,
               pa_supply_current_a |-> pa_current,
               pa_temperature_c |-> temp,
               measured_rf_output_dbm |-> measured_rf,
               freq_error_internal_hz |-> freq_error_int,
               freq_error_external_hz |-> freq_error_ext],
      last |-> [stress |-> FALSE, looked |-> FALSE,
                compression |-> compression, aclr_raw |-> 0,
                evm_raw |-> 0, evm_in |-> 0, amp_in |-> 0, timer_in |-> 0,
                active_in |-> FALSE, temp_base |-> temp,
                aclr_physical |-> 0]]

(***************************************************************************)
(* State after construction.                                               *)
(***************************************************************************)
Repeat(m, k) == [i \in 1..k |-> m]

\* FAILURE_MODES as built, before rng.shuffle
BaseModes ==
  Repeat("normal", NumNormal) \o Repeat("incipient", MIN_INCI)
  \o Repeat("recovering", MIN_RECV) \o Repeat("terminal", MIN_TERM)

CountOf(seq, m) == Cardinality({i \in DOMAIN seq : seq[i] = m})

\* drawing every element afresh instead of rearranging
Shuffles_Resampled(seq) == [DOMAIN seq -> Modes]

\* the lists rng.shuffle may leave: the rearrangements of the list
Shuffles(seq) ==
  {p \in [DOMAIN seq -> Modes] : \A m \in Modes : CountOf(p, m) = CountOf(seq, m)}

NoRow == [ts |-> 0]
NoLast == [stress |-> FALSE, looked |-> FALSE, compression |-> 0,
           aclr_raw |-> 0, evm_raw |-> 0, evm_in |-> 0, amp_in |-> 0,
           timer_in |-> 0, active_in |-> FALSE, temp_base |-> 0,
           aclr_physical |-> 0]

\* the initial states without the assignments to the timer, the latch and
\* the amplitude multiplier: these keep the values they have
InitialTrajState_FtcKept ==
  [time_s |-> 0, aging_factor |-> 0, pa_temp |-> T_REF, freq_drift |-> 0,
   prev_aclr |-> 45000, prev_evm |-> 1000,
   aclr_deg_state |-> 0, evm_deg_state |-> 0,
   aclr_deg_rate |-> 1000, evm_deg_rate |-> 1000,
   ftc_timer |-> ftc_timer, ftc_active |-> ftc_active, ftc_amp |-> ftc_amp]

\* the initial states of a trajectory (ftc36h) or of the run (data_gen)
InitialTrajState ==
  [time_s |-> 0, aging_factor |-> 0, pa_temp |-> T_REF, freq_drift |-> 0,
   prev_aclr |-> 45000, prev_evm |-> 1000,
   aclr_deg_state |-> 0, evm_deg_state |-> 0,
   aclr_deg_rate |-> 1000, evm_deg_rate |-> 1000,
   ftc_timer |-> 0, ftc_active |-> FALSE, ftc_amp |-> 1000]

TrajState ==
  [time_s |-> time_s, aging_factor |-> aging_factor, pa_temp |-> pa_temp,
   freq_drift |-> freq_drift, prev_aclr |-> prev_aclr, prev_evm |-> prev_evm,
   aclr_deg_state |-> aclr_deg_state, evm_deg_state |-> evm_deg_state,
   aclr_deg_rate |-> aclr_deg_rate, evm_deg_rate |-> evm_deg_rate,
   ftc_timer |-> ftc_timer, ftc_active |-> ftc_active, ftc_amp |-> ftc_amp]

SetTrajState(s) ==
  /\ time_s' = s.time_s
  /\ aging_factor' = s.aging_factor
  /\ pa_temp' = s.pa_temp
  /\ freq_drift' = s.freq_drift
  /\ prev_aclr' = s.prev_aclr
  /\ prev_evm' = s.prev_evm
  /\ aclr_deg_state' = s.aclr_deg_state
  /\ evm_deg_state' = s.evm_deg_state
  /\ aclr_deg_rate' = s.aclr_deg_rate
  /\ evm_deg_rate' = s.evm_deg_rate
  /\ ftc_timer' = s.ftc_timer
  /\ ftc_active' = s.ftc_active
  /\ ftc_amp' = s.ftc_amp

Init ==
  /\ prog \in {"ftc36h", "data_gen"}
  /\ pc = IF prog = "ftc36h" THEN "shuffle" ELSE "loop"
  /\ FAILURE_MODES = IF prog = "ftc36h" THEN BaseModes ELSE <<>>
  /\ start_time \in 0..MaxClock
  /\ traj_id = 0
  /\ step = 0
  /\ time_s = 0
  /\ aging_factor = 0
  /\ pa_temp = T_REF
  /\ freq_drift = 0
  /\ prev_aclr = 45000
  /\ prev_evm = 1000
  /\ aclr_deg_state = 0
  /\ evm_deg_state = 0
  /\ aclr_deg_rate = 1000
  /\ evm_deg_rate = 1000
  /\ ftc_timer = 0
  /\ ftc_active = FALSE
  /\ ftc_amp = 1000
  /\ row = NoRow
  /\ nrows = 0
  /\ last = NoLast
  /\ stress_run = 0
  /\ stress_count = 0
  /\ rng_pos = 0
  /\ normal_run = [state |-> InitialTrajState, row |-> NoRow]

FAILURE_MODE_OfFirst == FAILURE_MODES[1]

\* for traj_id, FAILURE_MODE in enumerate(FAILURE_MODES)
FAILURE_MODE == FAILURE_MODES[traj_id + 1]

(***************************************************************************)
(* The values each part of ftc36h takes from the stream of rng, the        *)
(* generator seeded once at import and shared by the whole script.         *)
(***************************************************************************)
\* rng.shuffle: one bounded integer per swap of the list
ShuffleDraws(seq) == Len(seq) - 1

\* the two rng.uniform rate multipliers of a terminal trajectory
StartDraws(mode) == IF mode = "terminal" THEN 2 ELSE 0

\* ambient, current (RF on only) and temperature noise
DrawsBeforeLatch(rf_on) == IF rf_on THEN 3 ELSE 2

\* one pass of the loop body: the draws before the latch check, the two
\* jitter draws (terminal and latched only), then measured RF, drift, the
\* two frequency errors, ACLR and EVM
DrawsOfStep(mode, rf_on, active) ==
  DrawsBeforeLatch(rf_on)
  + (IF mode = "terminal" /\ active THEN 2 ELSE 0)
  + 6

(***************************************************************************)
(* Actions.  NV is the set of noise vectors a step may draw: one value per *)
(* random draw of the loop body (amb, cur, temp, rf, drift, fint, fext,    *)
(* aclr, evm: the Gaussian draws in the order of the body; ua, ue: the     *)
(* two uniform jitter draws).  RV is the set of pairs of degradation-rate  *)
(* multipliers a terminal trajectory may draw at its start.                *)
(***************************************************************************)
\* rng.shuffle(FAILURE_MODES), then rows = [] and the clock read
Shuffle(outcomes) ==
  /\ prog = "ftc36h"
  /\ pc = "shuffle"
  /\ \E p \in outcomes : FAILURE_MODES' = p
  /\ rng_pos' = rng_pos + ShuffleDraws(FAILURE_MODES)
  /\ pc' = "start"
  /\ UNCHANGED <<prog, start_time, traj_id, step, time_s, aging_factor,
                 pa_temp, freq_drift, prev_aclr, prev_evm, aclr_deg_state,
                 evm_deg_state, aclr_deg_rate, evm_deg_rate, ftc_timer,
                 ftc_active, ftc_amp, row, nrows, last, stress_run,
                 stress_count, normal_run>>

\* the head of the for loop over the trajectories and the initial states
StartTrajectory(RV) ==
  /\ prog = "ftc36h"
  /\ \/ pc = "start" /\ traj_id' = 0
     \/ pc = "loop" /\ step = NUM_STEPS /\ traj_id + 1 < Len(FAILURE_MODES)
        /\ traj_id' = traj_id + 1
  /\ pc' = "loop"
  /\ step' = 0
  /\ \E r \in RV :
       SetTrajState(
         IF FAILURE_MODES[traj_id' + 1] = "terminal"
         THEN [InitialTrajState EXCEPT !.aclr_deg_rate = r.aclr,
                                       !.evm_deg_rate = r.evm]
         ELSE InitialTrajState)
  /\ rng_pos' = rng_pos + StartDraws(FAILURE_MODES[traj_id' + 1])
  /\ stress_run' = 0
  /\ stress_count' = 0
  /\ normal_run' = [state |-> InitialTrajState, row |-> NoRow]
  /\ UNCHANGED <<prog, FAILURE_MODES, start_time, row, nrows, last>>

\* one pass of the body of the step loop
Step(NV) ==
  /\ prog = "ftc36h"
  /\ pc = "loop"
  /\ step < NUM_STEPS
  /\ \E n \in NV :
       LET r == StepResult(TrajState, FAILURE_MODE, start_time, traj_id, n)
       IN /\ SetTrajState(r.next)
          /\ IF r.key_error
             THEN /\ pc' = "KeyError"
                  /\ rng_pos' = rng_pos + DrawsBeforeLatch(r.row.rf_output_state)
                  /\ UNCHANGED <<step, row, nrows, last, stress_run,
                                 stress_count, normal_run>>
             ELSE /\ pc' = "loop"
                  /\ step' = step + 1
                  /\ row' = r.row
                  /\ nrows' = nrows + 1
                  /\ last' = r.last
                  /\ stress_run' = IF r.last.stress THEN stress_run + 1 ELSE 0
                  /\ stress_count' =
                       IF r.last.stress THEN stress_count + 1 ELSE stress_count
                  /\ rng_pos' = rng_pos + DrawsOfStep(FAILURE_MODE,
                                   r.row.rf_output_state, r.row.ftc_active)
                  /\ normal_run' =
                       LET t == StepResult(normal_run.state, "normal",
                                           start_time, traj_id, n)
                       IN [state |-> t.next, row |-> t.row]
  /\ UNCHANGED <<prog, FAILURE_MODES, start_time, traj_id>>

\* df = pd.DataFrame(rows); df.to_csv(...)
Finish ==
  /\ prog = "ftc36h"
  /\ pc = "loop"
  /\ step = NUM_STEPS
  /\ traj_id + 1 = Len(FAILURE_MODES)
  /\ pc' = "done"
  /\ UNCHANGED <<prog, FAILURE_MODES, start_time, traj_id, step, time_s,
                 aging_factor, pa_temp, freq_drift, prev_aclr, prev_evm,
                 aclr_deg_state, evm_deg_state, aclr_deg_rate, evm_deg_rate,
                 ftc_timer, ftc_active, ftc_amp, row, nrows, last, stress_run,
                 stress_count, rng_pos, normal_run>>

\* data_gen: one pass of the body of the main simulation loop
DgStep(NV) ==
  /\ prog = "data_gen"
  /\ pc = "loop"
  /\ step < DgNumSteps
  /\ \E n \in NV :
       LET r == DgStepResult(TrajState, start_time, n)
       IN /\ time_s' = r.next.time_s
          /\ aging_factor' = r.next.aging_factor
          /\ pa_temp' = r.next.pa_temp
          /\ freq_drift' = r.next.freq_drift
          /\ row' = r.row
          /\ last' = r.last
  /\ step' = step + 1
  /\ nrows' = nrows + 1
  /\ UNCHANGED <<prog, pc, FAILURE_MODES, start_time, traj_id, prev_aclr,
                 prev_evm, aclr_deg_state, evm_deg_state, aclr_deg_rate,
                 evm_deg_rate, ftc_timer, ftc_active, ftc_amp, stress_run,
                 stress_count, rng_pos, normal_run>>

\* data_gen: df = pd.DataFrame(rows); df.to_csv(...)
DgFinish ==
  /\ prog = "data_gen"
  /\ pc = "loop"
  /\ step = DgNumSteps
  /\ pc' = "done"
  /\ UNCHANGED <<prog, FAILURE_MODES, start_time, traj_id, step, time_s,
                 aging_factor, pa_temp, freq_drift, prev_aclr, prev_evm,
                 aclr_deg_state, evm_deg_state, aclr_deg_rate, evm_deg_rate,
                 ftc_timer, ftc_active, ftc_amp, row, nrows, last, stress_run,
                 stress_count, rng_pos, normal_run>>

(***************************************************************************)
(* The noise vectors.  Sigma(k) is k standard deviations on every Gaussian *)
(* draw (0.3, 0.05, 0.1, 0.2, 0.05, 1.0, 0.5, 0.3, 0.08 in the source).    *)
(* The jitter draws are uniform on [0.005, 0.015) and [0.01, 0.03), in     *)
(* millionths; the rate multipliers on [0.8, 1.4) and [0.7, 1.5).          *)
(***************************************************************************)
Sigma(k, ua, ue) ==
  [amb |-> 300 * k, cur |-> 50 * k, temp |-> 100 * k, rf |-> 200 * k,
   drift |-> 50 * k, fint |-> 1000 * k, fext |-> 500 * k, aclr |-> 300 * k,
   evm |-> 80 * k, ua |-> ua, ue |-> ue]

\* a temperature draw of 40 degC either way, or a quiet step
ThermalNoise ==
  { [Sigma(1, 14999, 29999) EXCEPT !.temp = 40000],
    Sigma(0, 10000, 20000),
    [Sigma(-1, 5000, 10000) EXCEPT !.temp = -40000] }

\* hot steps with ACLR draws of 60 dB and EVM draws of 6 % either way
MetricNoise ==
  { [Sigma(1, 14999, 29999) EXCEPT !.temp = 40000, !.aclr = 60000, !.evm = 6000],
    [Sigma(0, 10000, 20000) EXCEPT !.temp = 40000, !.aclr = 60000, !.evm = -6000],
    [Sigma(-1, 5000, 10000) EXCEPT !.temp = 40000, !.aclr = -60000, !.evm = -6000] }

Rates == { [aclr |-> 800, evm |-> 700], [aclr |-> 1399, evm |-> 1499] }

\* a shuffle outcome: the list reversed (the terminal trajectories run first)
Reverse(seq) == [i \in DOMAIN seq |-> seq[Len(seq) + 1 - i]]

\* the shuffle outcome explored with the noise sets below: the shuffle that
\* leaves every element in its place (the terminal trajectories run last)
Next ==
  \/ Shuffle({FAILURE_MODES})
  \/ StartTrajectory(Rates)
  \/ Step(ThermalNoise)
  \/ Finish
  \/ DgStep(ThermalNoise)
  \/ DgFinish

Spec == Init /\ [][Next]_vars

NextMetric ==
  \/ Shuffle({FAILURE_MODES})
  \/ StartTrajectory(Rates)
  \/ Step(MetricNoise)
  \/ Finish
  \/ DgStep(MetricNoise)
  \/ DgFinish

SpecMetric == Init /\ [][NextMetric]_vars

(***************************************************************************)
(* The stream of rng.  The seed fixes the sequence of values the generator *)
(* yields; every draw takes the next value and moves the position on by    *)
(* one.  StreamValues stands for that sequence, in standard deviations     *)
(* for rng.normal and in fifths of the interval (shifted by 2) for         *)
(* rng.uniform; the position wraps around its length.                      *)
(***************************************************************************)
StreamValues == <<0, 1, -2, 2, -1, 1, 0, -1, 2, -2, 1>>

StreamValue(p) == StreamValues[(p % Len(StreamValues)) + 1]

\* rng.normal(0, sigma) at position p
StreamNormal(sigma, p) == sigma * StreamValue(p)

\* rng.uniform(lo, hi) at position p
StreamUniform(lo, hi, p) == lo + ((hi - lo) * (StreamValue(p) + 2)) \div 5

\* the rate multipliers a terminal trajectory draws at position pos
StreamRates(pos) ==
  [aclr |-> StreamUniform(800, 1400, pos),
   evm |-> StreamUniform(700, 1500, pos + 1)]

\* the noise vector one pass of the loop body draws from position pos on,
\* in the order of the body: the current draw is made only when RF is on,
\* and the two jitter draws only when the trajectory is terminal and the
\* latch check of this pass (which reads the temperature, and so the first
\* three draws) leaves fault-active true
StreamDraws(s, mode, pos) ==
  LET rf_on == rf_output_state(s.time_s + 1)
      p_temp == pos + DrawsBeforeLatch(rf_on) - 1
      head == [amb |-> StreamNormal(300, pos),
               cur |-> IF rf_on THEN StreamNormal(50, pos + 1) ELSE 0,
               temp |-> StreamNormal(100, p_temp),
               rf |-> 0, drift |-> 0, fint |-> 0, fext |-> 0, aclr |-> 0,
               evm |-> 0, ua |-> 0, ue |-> 0]
      jitter == mode = "terminal"
                /\ StepResult(s, mode, 0, 0, head).next.ftc_active
      p_rf == p_temp + 1 + (IF jitter THEN 2 ELSE 0)
  IN [head EXCEPT
        !.ua = IF jitter THEN StreamUniform(5000, 15000, p_temp + 1) ELSE 0,
        !.ue = IF jitter THEN StreamUniform(10000, 30000, p_temp + 2) ELSE 0,
        !.rf = StreamNormal(200, p_rf),
        !.drift = StreamNormal(50, p_rf + 1),
        !.fint = StreamNormal(1000, p_rf + 2),
        !.fext = StreamNormal(500, p_rf + 3),
        !.aclr = StreamNormal(300, p_rf + 4),
        !.evm = StreamNormal(80, p_rf + 5)]

(***************************************************************************)
(* A trajectory replayed from a given position of the stream: the loop     *)
(* head and k passes of the body, every draw taken from the stream.        *)
(***************************************************************************)
\* the initial states of a trajectory that begins at position pos
TrajectoryStart(mode, pos) ==
  IF mode = "terminal"
  THEN [InitialTrajState EXCEPT !.aclr_deg_rate = StreamRates(pos).aclr,
                                !.evm_deg_rate = StreamRates(pos).evm]
  ELSE InitialTrajState

\* the element of a one-element set
TheOne(S) == CHOOSE x \in S : TRUE

\* one pass of the loop body at b.state and b.pos with the draws n: the
\* state and the position reached, and the row appended
ReplayStep(b, mode, start, id, n) ==
  LET r == StepResult(b.state, mode, start, id, n)
  IN [state |-> r.next,
      pos |-> b.pos + DrawsOfStep(mode, r.row.rf_output_state,
                                  r.row.ftc_active),
      row |-> r.row]

\* k passes of the loop body from state s at position pos
RECURSIVE RunSteps(_, _, _, _, _, _)
RunSteps(s, mode, start, id, pos, k) ==
  IF k = 0
  THEN [state |-> s, pos |-> pos, row |-> NoRow]
  ELSE TheOne({ TheOne({ ReplayStep(b, mode, start, id, n) :
                           n \in {StreamDraws(b.state, mode, b.pos)} }) :
                  b \in {RunSteps(s, mode, start, id, pos, k - 1)} })

\* the first k steps of a trajectory that begins at position pos
RunTrajectory(mode, start, id, pos, k) ==
  RunSteps(TrajectoryStart(mode, pos), mode, start, id,
           pos + StartDraws(mode), k)

\* the position of the stream after whole trajectories of the given modes,
\* run one after the other from position pos
RECURSIVE PositionAfter(_, _)
PositionAfter(modes, pos) ==
  IF modes = <<>>
  THEN pos
  ELSE TheOne({ PositionAfter(Tail(modes), p) :
                  p \in {RunTrajectory(Head(modes), 0, 0, pos, NUM_STEPS).pos} })

\* ftc36h alone, with a fixed clock reading
InitStream == Init /\ prog = "ftc36h" /\ start_time = 0

\* every draw comes from the stream at the current position; the shuffle
\* may leave any rearrangement of the list
NextStream ==
  \/ Shuffle(Shuffles(FAILURE_MODES))
  \/ StartTrajectory({StreamRates(rng_pos)})
  \/ Step({StreamDraws(TrajState, FAILURE_MODE, rng_pos)})
  \/ Finish

SpecStream == InitStream /\ [][NextStream]_vars

\* a temperature draw of 120 degC, or a quiet step
HotNoise ==
  { [Sigma(1, 14999, 29999) EXCEPT !.temp = 120000],
    Sigma(0, 10000, 20000) }

NextHot ==
  \/ Shuffle({Reverse(FAILURE_MODES)})
  \/ StartTrajectory(Rates)
  \/ Step(HotNoise)
  \/ Finish
  \/ DgStep(HotNoise)
  \/ DgFinish

SpecHot == Init /\ [][NextHot]_vars

\* shuffle outcomes: the list rotated by every offset
Rotations(seq) ==
  { [i \in DOMAIN seq |-> seq[((i + k - 1) % Len(seq)) + 1]] :
      k \in 0..(Len(seq) - 1) }

\* ftc36h alone
InitFtc == Init /\ prog = "ftc36h"

NextRun ==
  \/ Shuffle(Rotations(FAILURE_MODES))
  \/ StartTrajectory({StreamRates(rng_pos)})
  \/ Step({StreamDraws(TrajState, FAILURE_MODE, rng_pos)})
  \/ Finish

\* the interpreter runs the script statement by statement until it ends:
\* a step that can be taken is taken
SpecRun == InitFtc /\ [][NextRun]_vars /\ WF_vars(NextRun)

(***************************************************************************)
(* Properties.                                                             *)
(***************************************************************************)
\* ftc36h is inside a trajectory: FAILURE_MODE is that trajectory's mode
InTrajectory == prog = "ftc36h" /\ pc \in {"loop", "done", "KeyError"}

\* a step of the ftc36h loop has run in the current trajectory: row and
\* last are that step's
Stepped == InTrajectory /\ step > 0

\* this transition is a step of the ftc36h loop that follows another step
\* of the same trajectory
NextStepOfTrajectory ==
  Stepped /\ step' = step + 1 /\ traj_id' = traj_id /\ nrows' = nrows + 1

(* C1: within one trajectory fault-active is a one-way latch: if the row   *)
(* of a step has fault-active true, so has the row of the next step of     *)
(* the same trajectory (and so, step by step, of every later one),         *)
(* whatever the stress of that step.                                       *)
C1_LatchIsOneWay ==
  [][NextStepOfTrajectory /\ row.ftc_active
       => row'.ftc_active /\ ftc_active']_vars

\* latched, the step unstressed, and the timer back below the threshold
C1_Witness ==
  /\ Stepped
  /\ row.ftc_active
  /\ ~last.stress
  /\ FAILURE_MODE \in DOMAIN FTC_TIMER_THRESHOLD
  /\ ftc_timer < FTC_TIMER_THRESHOLD[FAILURE_MODE]

(* C2: a normal trajectory never has fault-active true, however long it    *)
(* is stressed, and its latch check never subscripts the threshold map,    *)
(* which has no entry for normal (so no KeyError is raised).               *)
C2_NormalNeverLatches ==
  /\ "normal" \notin DOMAIN FTC_TIMER_THRESHOLD
  /\ (InTrajectory /\ FAILURE_MODE = "normal")
       => /\ ~ftc_active
          /\ pc /= "KeyError"
          /\ step > 0 => (~row.ftc_active /\ ~last.looked)

\* a normal trajectory stressed for as long as the largest threshold
C2_Witness ==
  /\ Stepped
  /\ FAILURE_MODE = "normal"
  /\ stress_run >= ThresholdTerminal
  /\ ftc_timer >= ThresholdTerminal

(* C3: in a non-normal trajectory, when the stress condition has held on   *)
(* threshold(mode) consecutive steps, fault-active is true in the row of   *)
(* the last of them at the latest, and it stays true in the rows after.    *)
C3_LatchedByThreshold ==
  /\ [](Stepped /\ FAILURE_MODE /= "normal"
          /\ stress_run >= FTC_TIMER_THRESHOLD[FAILURE_MODE]
        => row.ftc_active)
  /\ [][NextStepOfTrajectory /\ FAILURE_MODE /= "normal" /\ row.ftc_active
          => row'.ftc_active]_vars

\* a terminal trajectory in the row that ends its first stressed run of
\* threshold length, where the latch trips
C3_Witness ==
  /\ Stepped
  /\ FAILURE_MODE = "terminal"
  /\ stress_run = ThresholdTerminal
  /\ ftc_timer = ThresholdTerminal
  /\ row.ftc_active

(* C4: at the end of every step the fault amplitude multiplier lies in     *)
(* [1.0, cap(mode)], with cap 1.0, 1.25, 1.7, 3.0 for normal, incipient,   *)
(* recovering, terminal.                                                   *)
C4_AmpWithinCap ==
  InTrajectory => (1000 <= ftc_amp /\ ftc_amp <= FTC_AMP_CAP[FAILURE_MODE])

\* the ramp has reached the cap of a latched trajectory
C4_Witness ==
  /\ Stepped
  /\ ftc_active
  /\ ftc_amp = FTC_AMP_CAP[FAILURE_MODE]
  /\ last.amp_in + AmpStep > FTC_AMP_CAP[FAILURE_MODE]

\* the EVM emitted at the previous step of the trajectory, or the initial
\* EVM 1.0 before its first step
EvmEmittedBefore == IF step = 0 THEN 1000 ELSE row.rms_evm_percent

\* this transition is a step of the ftc36h loop (the first of a trajectory
\* included)
StepOfTrajectory ==
  InTrajectory /\ pc = "loop" /\ step' = step + 1 /\ traj_id' = traj_id
  /\ nrows' = nrows + 1

(* C5: in a terminal trajectory, the EVM of a row that has fault-active    *)
(* true is at least the EVM of the previous row of the trajectory (1.0     *)
(* before the first), whatever the noise drawn.                            *)
C5_EvmNeverFallsWhenLatched ==
  [][StepOfTrajectory /\ FAILURE_MODE = "terminal" /\ row'.ftc_active
       => row'.rms_evm_percent >= EvmEmittedBefore]_vars

\* a latched terminal step whose noise took the EVM below the previous
\* one: the floor holds it at the previous value
C5_Witness ==
  /\ Stepped
  /\ FAILURE_MODE = "terminal"
  /\ row.ftc_active
  /\ last.evm_raw < last.evm_in
  /\ row.rms_evm_percent = last.evm_in

(* C6: both degradation accumulators are zero in every non-terminal        *)
(* trajectory and in a terminal trajectory that has not latched; from the  *)
(* latching step on neither decreases from one step to the next, nor is    *)
(* reset, before the trajectory ends.                                      *)
C6_Accumulators ==
  /\ [](InTrajectory /\ (FAILURE_MODE /= "terminal" \/ ~ftc_active)
        => aclr_deg_state = 0 /\ evm_deg_state = 0)
  /\ [][InTrajectory /\ traj_id' = traj_id
          => /\ aclr_deg_state' >= aclr_deg_state
             /\ evm_deg_state' >= evm_deg_state]_vars

\* a latched terminal trajectory two steps or more after the latch, its
\* timer back below the threshold, the accumulators still standing
C6_Witness ==
  /\ Stepped
  /\ FAILURE_MODE = "terminal"
  /\ ftc_active
  /\ ftc_timer < ThresholdTerminal
  /\ aclr_deg_state > 2 * 5000
  /\ evm_deg_state > 2 * 10000

(* C7: the ACLR of a row never exceeds the ceiling 100, and below the      *)
(* ceiling it is emitted as computed: no lower bound is applied, also      *)
(* below 0.                                                                *)
C7_AclrCeilingOnly ==
  Stepped => /\ row.aclr_db <= ACLR_CEILING
             /\ last.aclr_raw <= ACLR_CEILING => row.aclr_db = last.aclr_raw

\* the noise took ACLR above the ceiling and the row holds the ceiling
C7_Witness ==
  /\ Stepped
  /\ last.aclr_raw > ACLR_CEILING
  /\ row.aclr_db = ACLR_CEILING

\* reachable as well: a row with ACLR below 0
C7_BelowZero == Stepped /\ row.aclr_db < 0

\* a step of the loop of the script that runs (either generator) has run
\* in the current trajectory: row is that step's
Emitted == pc \in {"loop", "done"} /\ step > 0

(* C8: in both generators a step whose RF state is off (elapsed time       *)
(* modulo the cycle period at or past the on-duration) emits a supply      *)
(* current of exactly 0.0, whatever the mode and the fault state.          *)
C8_ZeroCurrentWhenOff ==
  Emitted =>
    /\ ~row.rf_output_state => row.pa_supply_current_a = 0
    /\ prog = "ftc36h" /\ (time_s % CyclePeriod) >= OnDuration
         => row.pa_supply_current_a = 0
    /\ prog = "data_gen" /\ (time_s % DgCyclePeriod) >= DgOnDuration
         => row.pa_supply_current_a = 0

\* an RF-off step of a latched trajectory
C8_Witness ==
  /\ Stepped
  /\ ~row.rf_output_state
  /\ row.ftc_active
  /\ row.pa_supply_current_a = 0

(* C9: in both generators no step of the loop lowers the aging factor,     *)
(* and the aging factor of a row of ftc36h (data_gen emits no such column) *)
(* is at least that of the previous row of the same trajectory.            *)
C9_AgingNeverFalls ==
  [][(Emitted /\ step' = step + 1 /\ traj_id' = traj_id)
       => /\ aging_factor' >= aging_factor
          /\ prog = "ftc36h" => row'.aging_factor >= row.aging_factor]_vars

\* the third row of a trajectory
C9_Witness == Stepped /\ step >= 3 /\ row.aging_factor >= 3

(* C10: two runs of ftc36h with the same seed and configuration emit the   *)
(* same rows, the timestamp included: whatever the clock read at the start *)
(* of the other run, its row of this step equals this run's.  (The seed    *)
(* fixes every draw, so the other run differs in its clock reading only.)  *)
C10_RunsIdentical ==
  Stepped =>
    \A clock \in 0..MaxClock :
      [row EXCEPT !.ts = Timestamp(clock, time_s)] = row

(* C11: after the shuffle the trajectory assignment holds at least the     *)
(* configured minimum of incipient, recovering and terminal trajectories;  *)
(* the shuffle only rearranges the list: its length and the count of every *)
(* mode are those of the list as built.                                    *)
C11_ShuffleKeepsQuotas ==
  (prog = "ftc36h" /\ pc /= "shuffle") =>
    /\ Len(FAILURE_MODES) = NumNormal + MIN_INCI + MIN_RECV + MIN_TERM
    /\ \A i \in 1..Len(FAILURE_MODES) : FAILURE_MODES[i] \in Modes
    /\ \A m \in Modes : CountOf(FAILURE_MODES, m) = CountOf(BaseModes, m)
    /\ CountOf(FAILURE_MODES, "incipient") >= MIN_INCI
    /\ CountOf(FAILURE_MODES, "recovering") >= MIN_RECV
    /\ CountOf(FAILURE_MODES, "terminal") >= MIN_TERM

\* the shuffle moved the list: a terminal trajectory runs first and a
\* normal one last
C11_Witness ==
  /\ prog = "ftc36h"
  /\ pc = "done"
  /\ FAILURE_MODES /= BaseModes
  /\ FAILURE_MODES[1] = "terminal"
  /\ FAILURE_MODES[Len(FAILURE_MODES)] = "normal"

(* C12: the run of ftc36h ends, and when it has ended it has appended      *)
(* trajectory_count x step_count rows.  Rows are appended one at a time,   *)
(* one per step of one trajectory: the row count is always the number of   *)
(* (trajectory, step) pairs passed so far.  The rows of a trajectory come  *)
(* in increasing step order (their timestamps rise by one step), and each  *)
(* carries the id of its trajectory and the mode assigned to it, which no  *)
(* step changes after the shuffle.                                         *)
C12_OneRowPerStep ==
  /\ [](prog = "ftc36h" /\ pc \in {"loop", "done"}
        => /\ nrows = traj_id * NUM_STEPS + step
           /\ step > 0 => /\ row.trajectory_id = traj_id
                          /\ row.failure_mode = FAILURE_MODES[traj_id + 1]
                          /\ row.ts = start_time + step)
  /\ [](prog = "ftc36h" /\ pc = "done"
        => nrows = Len(FAILURE_MODES) * NUM_STEPS)
  /\ [][prog = "ftc36h" /\ pc /= "shuffle"
          => /\ FAILURE_MODES' = FAILURE_MODES
             /\ nrows' /= nrows
                  => /\ nrows' = nrows + 1
                     /\ step' = step + 1
                     /\ traj_id' = traj_id]_vars
  /\ [][NextStepOfTrajectory
          => /\ row'.ts = row.ts + 1
             /\ row'.trajectory_id = row.trajectory_id
             /\ row'.failure_mode = row.failure_mode]_vars
  /\ (prog = "ftc36h" ~> pc = "done")

\* the script has ended with the last row of the last trajectory appended
C12_Witness ==
  /\ prog = "ftc36h"
  /\ pc = "done"
  /\ nrows = Len(FAILURE_MODES) * NUM_STEPS
  /\ row.trajectory_id = Len(FAILURE_MODES) - 1
  /\ row.failure_mode = FAILURE_MODES[Len(FAILURE_MODES)]
  /\ row.ts = start_time + NUM_STEPS

(* C13: no trajectory reads what an earlier trajectory wrote, the position *)
(* of the random stream included: the row of a step is the row the same    *)
(* trajectory (same id, same mode, same step) emits whatever modes the     *)
(* trajectories that ran before it had.                                    *)
C13_RowsIndependentOfPredecessors ==
  Stepped =>
    \A before \in [1..traj_id -> Modes] :
      row = RunTrajectory(FAILURE_MODE, start_time, traj_id,
                          PositionAfter(before, ShuffleDraws(FAILURE_MODES)),
                          step).row

\* the replay agrees with the run when the trajectories before are the
\* ones that did run
C13_ReplayOfSamePredecessors ==
  Stepped =>
    row = RunTrajectory(FAILURE_MODE, start_time, traj_id,
                        PositionAfter(SubSeq(FAILURE_MODES, 1, traj_id),
                                      ShuffleDraws(FAILURE_MODES)),
                        step).row

(* C14: at the head of every trajectory, the first and those that follow  *)
(* another alike, the loop-carried state is the same: elapsed time 0,      *)
(* aging factor 0, temperature 25, frequency drift 0, previous ACLR 45,    *)
(* previous EVM 1, both degradation accumulators 0, fault timer 0,         *)
(* fault-active false and amplitude multiplier 1.0.                        *)
C14_FreshInitialState ==
  (prog = "ftc36h" /\ pc = "loop" /\ step = 0) =>
    /\ time_s = 0
    /\ aging_factor = 0
    /\ pa_temp = 25000
    /\ freq_drift = 0
    /\ prev_aclr = 45000
    /\ prev_evm = 1000
    /\ aclr_deg_state = 0
    /\ evm_deg_state = 0
    /\ ftc_timer = 0
    /\ ~ftc_active
    /\ ftc_amp = 1000

\* the head of a trajectory that follows a terminal one which ended
\* latched, hot, its timer and amplitude raised and its EVM grown (row and
\* last are still those of its last step)
C14_Witness ==
  /\ prog = "ftc36h"
  /\ pc = "loop"
  /\ step = 0
  /\ traj_id > 0
  /\ row.trajectory_id = traj_id - 1
  /\ row.failure_mode = "terminal"
  /\ row.ftc_active
  /\ row.pa_temperature_c > 60000
  /\ row.rms_evm_percent > 1000
  /\ last.timer_in > 0
  /\ last.amp_in > 1000
  /\ ~ftc_active

(* C15: fault-active goes from false to true only in a step whose latch   *)
(* check sees a non-normal mode and a timer (as updated in that step) at   *)
(* or above the threshold of the mode.  The timer starts at 0 and gains at *)
(* most 1 per step, and only on a stressed step: so fault-active is false  *)
(* in each of the first threshold - 1 steps of a trajectory, and by the    *)
(* time the latch trips at least threshold stressed steps have occurred.   *)
C15_LatchOnlyAtThreshold ==
  /\ [][StepOfTrajectory /\ ~ftc_active /\ ftc_active'
          => /\ FAILURE_MODE /= "normal"
             /\ last'.looked
             /\ ftc_timer' >= FTC_TIMER_THRESHOLD[FAILURE_MODE]]_vars
  /\ [][StepOfTrajectory
          => /\ ftc_timer' <= ftc_timer + 1
             /\ ftc_timer' > ftc_timer => last'.stress]_vars
  /\ [](InTrajectory /\ pc = "loop" /\ step = 0 => ftc_timer = 0)
  /\ [](Stepped /\ FAILURE_MODE /= "normal"
          /\ step <= FTC_TIMER_THRESHOLD[FAILURE_MODE] - 1
        => ~row.ftc_active)
  /\ [](Stepped /\ row.ftc_active
        => /\ FAILURE_MODE /= "normal"
           /\ stress_count >= FTC_TIMER_THRESHOLD[FAILURE_MODE])

\* an incipient trajectory in its latching step, the timer just at the
\* threshold after a stressed run that was interrupted and resumed
C15_Witness ==
  /\ Stepped
  /\ FAILURE_MODE = "incipient"
  /\ ~last.active_in
  /\ row.ftc_active
  /\ ftc_timer = ThresholdIncipient
  /\ stress_count > ThresholdIncipient
  /\ stress_run < stress_count

(* C16: the fault timer is never negative, and after every step, in every *)
(* mode and whether or not the fault has latched, it is the timer before   *)
(* the step plus 1 if the stress condition held in the step (RF power at   *)
(* or above 9.5 and the temperature of the step above 60), and otherwise   *)
(* the timer before the step minus 1 but not below 0; nothing bounds it    *)
(* from above.                                                             *)
C16_TimerUpdate ==
  /\ InTrajectory => ftc_timer >= 0
  /\ Stepped =>
       /\ last.stress = (row.rf_power_setpoint_dbm >= 9500
                          /\ row.pa_temperature_c > 60000)
       /\ last.stress => ftc_timer = last.timer_in + 1
       /\ (~last.stress /\ last.timer_in >= 1) => ftc_timer = last.timer_in - 1
       /\ (~last.stress /\ last.timer_in < 1) => ftc_timer = 0

\* a trajectory latched before this step whose timer climbs on, past the
\* threshold
C16_Witness ==
  /\ Stepped
  /\ FAILURE_MODE /= "normal"
  /\ last.active_in
  /\ last.stress
  /\ last.timer_in >= FTC_TIMER_THRESHOLD[FAILURE_MODE]
  /\ ftc_timer > FTC_TIMER_THRESHOLD[FAILURE_MODE]

\* reachable as well: an unstressed step of a normal trajectory whose timer
\* is already 0
C16_FloorInNormal ==
  /\ Stepped
  /\ FAILURE_MODE = "normal"
  /\ step > 1
  /\ ~last.stress
  /\ last.timer_in = 0
  /\ ftc_timer = 0

(* C17: the compression of a step is never negative in either generator;  *)
(* in data_gen it never exceeds 6.0; in ftc36h it is the computed value    *)
(* floored at 0 with no upper cap, also where that value is above 6.0      *)
(* (the witness: a hot step).                                              *)
C17_CompressionBounds ==
  Emitted =>
    /\ last.compression >= 0
    /\ prog = "data_gen" => last.compression <= 6000
    /\ prog = "ftc36h" =>
         LET computed == (row.rf_power_setpoint_dbm - 10000)
                         + (2 * Max(0, row.pa_temperature_c - 25000)) \div 100
                         + (15 * row.aging_factor) \div 100000
         IN /\ computed >= 0 => last.compression = computed
            /\ computed < 0 => last.compression = 0

\* ftc36h: a step hot enough for the compression to pass 6.0
C17_Witness ==
  /\ Stepped
  /\ row.pa_temperature_c > 325000
  /\ last.compression > 6000

\* reachable as well: a step of data_gen as hot, its compression held at
\* the cap
C17_CapBinds ==
  /\ prog = "data_gen"
  /\ Emitted
  /\ row.rf_power_setpoint_dbm = 10000
  /\ row.pa_temperature_c > 325000
  /\ last.compression = 6000

\* reachable as well: a step of ftc36h at reduced power whose computed
\* compression is negative and emitted as 0
C17_FloorBinds ==
  /\ Stepped
  /\ row.rf_power_setpoint_dbm < 10000
  /\ row.pa_temperature_c < 50000
  /\ last.compression = 0

(* C18: while fault-active is false the amplitude multiplier is exactly    *)
(* 1.0.  In every step that ends with fault-active true, the latching step *)
(* included, the multiplier does not decrease: it rises by one ramp step   *)
(* (0.001 in the source), or to cap(mode) when that is nearer, and once at *)
(* the cap it stays there.                                                 *)
C18_AmpRamp ==
  /\ [](InTrajectory /\ ~ftc_active => ftc_amp = 1000)
  /\ [](Stepped /\ ~row.ftc_active => last.amp_in = 1000)
  /\ [][StepOfTrajectory /\ ftc_active'
          => /\ ftc_amp' >= ftc_amp
             /\ ftc_amp + AmpStep <= FTC_AMP_CAP[FAILURE_MODE]
                  => ftc_amp' = ftc_amp + AmpStep
             /\ ftc_amp + AmpStep > FTC_AMP_CAP[FAILURE_MODE]
                  => ftc_amp' = FTC_AMP_CAP[FAILURE_MODE]
             /\ ftc_amp = FTC_AMP_CAP[FAILURE_MODE]
                  => ftc_amp' = ftc_amp]_vars

\* a recovering trajectory that entered this step latched and at its cap,
\* and leaves it at the cap
C18_Witness ==
  /\ Stepped
  /\ FAILURE_MODE = "recovering"
  /\ last.active_in
  /\ last.amp_in = FTC_AMP_CAP["recovering"]
  /\ ftc_amp = FTC_AMP_CAP["recovering"]

\* reachable as well: the latching step, in which the multiplier leaves
\* 1.0 by one ramp step
C18_RampInLatchingStep ==
  /\ Stepped
  /\ FAILURE_MODE = "terminal"
  /\ ~last.active_in
  /\ row.ftc_active
  /\ last.amp_in = 1000
  /\ ftc_amp = 1000 + AmpStep

\* the physical columns of a row
PhysicalColumns(r) ==
  [pa_supply_current_a |-> r.pa_supply_current_a,
   pa_temperature_c |-> r.pa_temperature_c,
   measured_rf_output_dbm |-> r.measured_rf_output_dbm,
   freq_error_internal_hz |-> r.freq_error_internal_hz,
   freq_error_external_hz |-> r.freq_error_external_hz,
   aclr_db |-> r.aclr_db,
   rms_evm_percent |-> r.rms_evm_percent,
   aging_factor |-> r.aging_factor]

(* C19: in an incipient or recovering trajectory every physical column of  *)
(* every row (supply current, temperature, measured RF output, the two     *)
(* frequency errors, ACLR, EVM, aging factor) is the one a normal-mode     *)
(* trajectory emits at that step on the same draws, latched or not; the    *)
(* thermal runaway is not added, the accumulators stay 0 so ACLR carries   *)
(* no bias, and the EVM is emitted as computed, without the floor.         *)
C19_LatchLeavesPhysicsAlone ==
  (Stepped /\ FAILURE_MODE \in {"incipient", "recovering"}) =>
    /\ PhysicalColumns(row) = PhysicalColumns(normal_run.row)
    /\ row.ts = normal_run.row.ts
    /\ row.pa_temperature_c = last.temp_base
    /\ aclr_deg_state = 0
    /\ evm_deg_state = 0
    /\ last.aclr_raw = last.aclr_physical
    /\ row.rms_evm_percent = last.evm_raw

\* an incipient trajectory latched for more than a step, its amplitude at
\* the cap, in a hot step whose EVM fell below the previous one
C19_Witness ==
  /\ Stepped
  /\ FAILURE_MODE = "incipient"
  /\ last.active_in
  /\ row.ftc_active
  /\ ~normal_run.row.ftc_active
  /\ ftc_amp = FTC_AMP_CAP["incipient"]
  /\ normal_run.state.ftc_amp = 1000
  /\ row.pa_temperature_c > 60000
  /\ row.rms_evm_percent < last.evm_in

\* the step that ran last is the latching step of a terminal trajectory
TerminalLatchingStep ==
  Stepped /\ FAILURE_MODE = "terminal" /\ ~last.active_in /\ row.ftc_active

(* C20: within a step the temperature (with the runaway increment) is      *)
(* updated first, the stress condition and the latch check follow on that  *)
(* temperature, and the amplitude and degradation updates come after the   *)
(* check.  So in a terminal trajectory the row of the latching step has    *)
(* the temperature without the runaway increment, which is first added in  *)
(* the next step (with the amplitude the latching step left); while in the *)
(* latching step itself the amplitude has left 1.0, both accumulators are  *)
(* above 0, ACLR carries the bias of the accumulator and the EVM is not    *)
(* below the previous one.  In every step the stress condition is the one  *)
(* of the temperature emitted in that step.                                *)
C20_OrderWithinStep ==
  /\ [](Stepped =>
          last.stress = (row.rf_power_setpoint_dbm >= 9500
                         /\ row.pa_temperature_c > 60000))
  /\ [](Stepped /\ FAILURE_MODE = "terminal" =>
          /\ ~last.active_in => row.pa_temperature_c = last.temp_base
          /\ last.active_in =>
               row.pa_temperature_c
                 = last.temp_base + (FTC_THERMAL_GAIN * last.amp_in) \div 1000)
  /\ [](TerminalLatchingStep =>
          /\ last.stress
          /\ ftc_timer >= ThresholdTerminal
          /\ last.amp_in = 1000
          /\ ftc_amp > 1000
          /\ aclr_deg_state > 0
          /\ evm_deg_state > 0
          /\ last.aclr_raw = last.aclr_physical - aclr_deg_state \div 1000
          /\ last.aclr_raw < last.aclr_physical
          /\ row.rms_evm_percent >= last.evm_in)
  /\ [][TerminalLatchingStep /\ NextStepOfTrajectory
          => /\ last'.active_in
             /\ row'.pa_temperature_c
                  = last'.temp_base + (FTC_THERMAL_GAIN * ftc_amp) \div 1000
             /\ row'.pa_temperature_c > last'.temp_base]_vars

\* the step after the latching step of a terminal trajectory: the first
\* with the runaway increment, the amplitude being the one the latching
\* step left
C20_Witness ==
  /\ Stepped
  /\ FAILURE_MODE = "terminal"
  /\ last.active_in
  /\ last.amp_in = Min(1000 + AmpStep, FTC_AMP_CAP["terminal"])
  /\ last.timer_in = ThresholdTerminal
  /\ row.pa_temperature_c > last.temp_base

\* reachable as well: a latching step in which the EVM floor binds
C20_FloorInLatchingStep ==
  /\ TerminalLatchingStep
  /\ last.evm_raw < last.evm_in
  /\ row.rms_evm_percent = last.evm_in

====
